---- MODULE Spec2Model ----
(***************************************************************************)
(* Order handling of the FoodieHub backend.                                *)
(*                                                                         *)
(* The repository holds three variants of the order endpoints:             *)
(*   - server.js            POST /api/orders/create (own Order schema)     *)
(*   - routes/orderRoutes.js  router over models/Order (pre-save hooks)    *)
(*   - the order controller (createOrder, updateOrderStatus,               *)
(*     updatePaymentStatus, cancelOrder) over models/Order                 *)
(* All of them write the "orders" collection, modelled by `orders`.        *)
(* A handler is split at its awaits on the database: what it reads before  *)
(* the write and the write itself are separate steps, so that requests     *)
(* interleave the way they do on the event loop.                           *)
(*                                                                         *)
(* Money is counted in minor units (2.99 is 299).  The item prices used    *)
(* are multiples of 100, for which the 8% tax and the 5% service fee are   *)
(* whole numbers of minor units.                                           *)
(* The controller names the owner field userId and the router names it     *)
(* user; the model has one field, user.                                    *)
(***************************************************************************)
EXTENDS Integers, Sequences, FiniteSets, TLC

\* ------------------------------------------------------------------ bounds
\* orders the collection holds in the specifications of order creation
MaxOrders == 2
\* orders the collection holds in the specifications of the order lifecycle
MaxLiveOrders == 1
MaxClock == 2

\* --------------------------------------------------------- program constants
DefaultDeliveryFee == 299
RestaurantDeliveryFee == 299
TaxPercent == 8
ServiceFeePercent == 5
DuplicateKey == 11000
ServerListLimit == 50

NoUser == "none"
GuestUser == "guest"
NoDate == 0

\* concurrent requests in flight
ReqIds == {1, 2}
\* Math.floor(Math.random() * 1000), and * 2000 on the retry: the retry draws
\* from a range twice as wide
Rands == {0}
RetryRands == {0, 1}

Users == {"alice", "bob"}
Actors ==
  {[id |-> "alice", role |-> "user"],
   [id |-> "bob", role |-> "user"],
   [id |-> "root", role |-> "admin"]}
Anonymous == [id |-> NoUser, role |-> "user"]

\* status enum of models/Order
ModelStatuses ==
  {"pending", "confirmed", "preparing", "ready", "out_for_delivery",
   "delivered", "cancelled", "refunded"}
\* status enum of the schema in server.js
ServerStatuses ==
  {"pending", "confirmed", "preparing", "out_for_delivery", "delivered",
   "cancelled"}
ModelPaymentMethods == {"credit_card", "debit_card", "paypal", "cash_on_delivery"}
ServerPaymentMethods == {"credit_card", "debit_card", "paypal", "cash"}
PaymentStatuses == {"pending", "completed", "failed", "refunded"}
\* validStatuses of the controller's updateOrderStatus
validStatuses ==
  {"pending", "confirmed", "preparing", "ready", "out_for_delivery",
   "delivered", "cancelled"}
validPaymentStatuses == {"pending", "completed", "failed", "refunded"}
\* nonCancellableStatuses of the controller's cancelOrder
CtrlNonCancellable == {"preparing", "ready", "out_for_delivery", "delivered"}
\* nonCancellableStatuses of the router's PUT /:orderId/cancel
RouteNonCancellable == {"delivered", "cancelled", "out_for_delivery", "ready"}

\* ------------------------------------------------------------------ money
RECURSIVE ItemsTotal(_)
\* items.reduce((total, item) => total + item.price * item.quantity, 0)
ItemsTotal(items) ==
  IF items = <<>> THEN 0
  ELSE ItemsTotal(SubSeq(items, 1, Len(items) - 1))
       + items[Len(items)].price * items[Len(items)].quantity

TaxOf(subtotal) == (subtotal * TaxPercent) \div 100
ServiceFeeOf(subtotal) == (subtotal * ServiceFeePercent) \div 100

\* a || b on numbers: 0 (and a missing value, modelled as 0) is falsy
OrElse(a, b) == IF a # 0 THEN a ELSE b
\* a || b of strings
OrEmail(a, b) == IF a # "" THEN a ELSE b

\* ------------------------------------------------------------ order record
\* An e-mail address is named by the user it belongs to.  userEmail and
\* contactEmail (contactInfo.email) hold such a name, "placeholder" (a
\* literal of the handler) or "none" (no value).  createdAt is the time of
\* the save that stored the order (timestamps: true).
BlankOrder ==
  [orderNumber |-> <<0, 0>>, via |-> "none", user |-> NoUser, items |-> <<>>,
   status |-> "pending", paymentMethod |-> "credit_card",
   paymentStatus |-> "pending", deliveryType |-> "delivery",
   deliveryAddress |-> "full",
   subtotal |-> 0, deliveryFee |-> 0, tax |-> 0, serviceFee |-> 0, tip |-> 0,
   discountAmount |-> 0, totalAmount |-> 0,
   deliveredAt |-> NoDate, cancelledAt |-> NoDate, cancellationReason |-> "",
   rated |-> FALSE, rating |-> 0,
   userEmail |-> "none", contactEmail |-> "none", createdAt |-> NoDate]

NoResp == [code |-> 0, message |-> ""]
Resp(c, m) == [code |-> c, message |-> m]

\* ------------------------------------------------------------ request bodies
\* A present field is TRUE; userEmail and contactEmail (contactInfo.email)
\* are an address or "" when missing; a number that is missing or not a
\* number is 0
\* (parseFloat(undefined) || 0, and x || y).
BaseBody ==
  [restaurantId |-> TRUE, restaurantName |-> TRUE, userEmail |-> "alice",
   itemsGiven |-> TRUE, items |-> <<[price |-> 100, quantity |-> 2]>>,
   deliveryAddress |-> "full", contactInfo |-> TRUE, contactEmail |-> "alice",
   paymentMethod |-> "credit_card", deliveryType |-> "delivery",
   subtotal |-> 200, deliveryFee |-> 299, tax |-> 16, tip |-> 0,
   total |-> 515]

\* let emailResults = { customerEmail: false, adminEmail: false }
NoEmails == [customerEmail |-> FALSE, adminEmail |-> FALSE]

\* emailResults: what the two notifications of the request returned;
\* emailSent: the flag of that name in the answer; data: the answer carries
\* the order; body: req.body of a request that creates an order; list: the
\* orders of the answer to a request that lists orders, by their position in
\* the collection
IdleReq ==
  [pc |-> "idle", op |-> "none", actor |-> Anonymous, id |-> 0,
   seen |-> "", target |-> "",
   mem |-> BlankOrder, mod |-> {},
   attempts |-> 0, dups |-> 0, resp |-> NoResp,
   emailResults |-> NoEmails, emailSent |-> FALSE, data |-> FALSE,
   body |-> BaseBody, list |-> <<>>]

VARIABLES orders, reqs, now, isMongoDBConnected
vars == <<orders, reqs, now, isMongoDBConnected>>

OrderIds == 1..Len(orders)
OrderNumbersInUse == {orders[i].orderNumber : i \in OrderIds}

Init ==
  /\ orders = <<>>
  /\ reqs = [r \in ReqIds |-> IdleReq]
  /\ now = 1
  /\ isMongoDBConnected \in BOOLEAN

\* time passes
Tick ==
  /\ now < MaxClock
  /\ now' = now + 1
  /\ UNCHANGED <<orders, reqs, isMongoDBConnected>>

\* the response has been sent; the slot serves the next request
Finish(r) ==
  /\ reqs[r].pc = "done"
  /\ reqs' = [reqs EXCEPT ![r] = IdleReq]
  /\ UNCHANGED <<orders, now, isMongoDBConnected>>

\* res.status(code).json({message}): the handler has answered
Done(r, req, resp) ==
  reqs' = [reqs EXCEPT ![r] =
    [req EXCEPT !.pc = "done", !.resp = resp, !.mem = BlankOrder,
                !.mod = {}]]

\* the well-formed body, the bodies that differ from it in one field, the
\* body that leaves every total to the server, and bodies that break several
\* rules at once, carry no e-mail address or carry a negative amount
Bodies ==
  {BaseBody}
  \cup {[BaseBody EXCEPT !.items = v] :
          v \in {<<>>, <<[price |-> 100, quantity |-> 1],
                        [price |-> 200, quantity |-> 1]>>}}
  \cup {[BaseBody EXCEPT !.itemsGiven = FALSE, !.items = <<>>]}
  \cup {[BaseBody EXCEPT !.restaurantId = FALSE]}
  \cup {[BaseBody EXCEPT !.contactInfo = FALSE]}
  \cup {[BaseBody EXCEPT !.deliveryAddress = v] : v \in {"none", "partial"}}
  \cup {[BaseBody EXCEPT !.paymentMethod = v] : v \in {"cash", "cash_on_delivery"}}
  \cup {[BaseBody EXCEPT !.deliveryType = "pickup"]}
  \cup {[BaseBody EXCEPT !.subtotal = 500]}
  \cup {[BaseBody EXCEPT !.total = 900]}
  \cup {[BaseBody EXCEPT !.tip = 50]}
  \cup {[BaseBody EXCEPT !.subtotal = 0, !.deliveryFee = 0, !.tax = 0,
                         !.total = 0]}
  \cup {[BaseBody EXCEPT !.items = <<>>, !.restaurantId = FALSE],
        [BaseBody EXCEPT !.items = <<>>, !.deliveryAddress = "none"],
        [BaseBody EXCEPT !.deliveryType = "pickup", !.deliveryAddress = "none"],
        [BaseBody EXCEPT !.contactEmail = ""],
        [BaseBody EXCEPT !.contactEmail = "", !.userEmail = ""],
        [BaseBody EXCEPT !.tip = -900],
        [BaseBody EXCEPT !.tip = -900, !.total = -385]}

\* the bodies sent to server.js: the well-formed one, one that lacks a
\* required field, one the schema refuses, and those whose subtotal or total
\* the handler has to deal with
ServerBodies ==
  {BaseBody,
   [BaseBody EXCEPT !.restaurantId = FALSE],
   [BaseBody EXCEPT !.deliveryAddress = "partial"],
   [BaseBody EXCEPT !.subtotal = 500],
   [BaseBody EXCEPT !.total = 900]}

\* requests that create an order and have not answered yet
InFlightCreates ==
  Cardinality({r \in ReqIds : reqs[r].pc \in {"save", "retry"}})
\* the collection of the model holds at most cap orders
RoomForOrder(cap) == Len(orders) + InFlightCreates < cap

\* ------------------------------------------- server.js POST /api/orders/create
\* requiredFields.filter(field => !req.body[field]); an empty items array is
\* truthy
ServerMissingFields(body) ==
  \/ ~body.restaurantId
  \/ ~body.restaurantName
  \/ body.userEmail = ""
  \/ ~body.itemsGiven
  \/ body.deliveryAddress = "none"
  \/ ~body.contactInfo

ServerOrderData(body, number) ==
  [BlankOrder EXCEPT
     !.orderNumber = number, !.via = "server", !.user = NoUser,
     !.items = body.items, !.deliveryAddress = body.deliveryAddress,
     !.paymentMethod = body.paymentMethod, !.deliveryType = body.deliveryType,
     !.subtotal = body.subtotal, !.deliveryFee = body.deliveryFee,
     !.tax = body.tax, !.tip = body.tip, !.totalAmount = body.total,
     !.status = "confirmed",
     !.userEmail = OrEmail(body.userEmail,
                           OrEmail(body.contactEmail, "placeholder")),
     !.contactEmail = OrEmail(body.contactEmail,
                              OrEmail(body.userEmail, "none"))]

\* order.validateSync() against the schema of server.js
ServerValidate(o) ==
  /\ o.deliveryAddress = "full"
  /\ o.contactEmail # "none"
  /\ o.paymentMethod \in ServerPaymentMethods
  /\ o.deliveryType \in {"delivery", "pickup"}
  /\ o.status \in ServerStatuses
  /\ \A i \in 1..Len(o.items) : o.items[i].quantity >= 1

\* (mutant) the collection has no unique index on orderNumber
UniqueViolationNoIndex(number) == FALSE

\* the unique index on orderNumber
UniqueViolation(number) == number \in OrderNumbersInUse

\* what a database call throws: error.name and error.code
ValidationError == [name |-> "ValidationError", code |-> 0]
DuplicateKeyError == [name |-> "MongoServerError", code |-> DuplicateKey]
OtherError == [name |-> "MongoNetworkError", code |-> 0]

ServerValidationFailed == Resp(400, "Order validation failed")

\* (mutant) the duplicate key is answered like a validation failure
ServerOuterCatchSameAnswer(err) ==
  IF err.name = "ValidationError" \/ err.code = DuplicateKey
  THEN ServerValidationFailed
  ELSE Resp(500, "Failed to create order")

\* the outer catch of the handler
ServerOuterCatch(err) ==
  IF err.name = "ValidationError" THEN ServerValidationFailed
  ELSE IF err.code = DuplicateKey THEN Resp(400, "Duplicate order detected")
  ELSE Resp(500, "Failed to create order")

ServerCreated == Resp(201, "Order created successfully!")

ServerCreateStart(r, body) ==
  /\ reqs[r].pc = "idle"
  /\ RoomForOrder(MaxOrders)
  /\ IF ServerMissingFields(body)
     THEN Done(r, [IdleReq EXCEPT !.op = "serverCreate", !.body = body],
               Resp(400, "Missing required fields"))
     ELSE \E rand \in Rands :
            reqs' = [reqs EXCEPT ![r] =
              [IdleReq EXCEPT !.op = "serverCreate", !.pc = "save",
                              !.body = body,
                              !.mem = ServerOrderData(body, <<now, rand>>)]]
  /\ UNCHANGED <<orders, now, isMongoDBConnected>>

NoError == [name |-> "", code |-> 0]

\* { timestamps: true } of the schema of server.js: createdAt of a document
\* saved for the first time
ServerTimestamps(o, t) == [o EXCEPT !.createdAt = t]

\* savedOrder is set: the handler goes on to the email section
ServerSaved(r, req) ==
  reqs' = [reqs EXCEPT ![r] =
    [req EXCEPT !.pc = "customerEmail", !.mem = BlankOrder]]

\* what order.save() of a new document answers, fault being a failure of the
\* database that is neither a validation error nor a duplicate key
SaveOutcome(valid, fault, number) ==
  IF ~valid THEN ValidationError
  ELSE IF fault THEN OtherError
  ELSE IF UniqueViolation(number) THEN DuplicateKeyError
  ELSE NoError

\* (mutant) every error of the save is retried
ShouldRetryAnyError(err) == TRUE

\* if (saveError.code === 11000): the one error the handler saves again after
ShouldRetry(err) == err.code = DuplicateKey

\* the first new Order(orderData), validateSync() and save()
ServerCreateSave(r, fault) ==
  LET req == reqs[r]
      tried == [req EXCEPT !.attempts = @ + 1]
      err == SaveOutcome(ServerValidate(req.mem), fault, req.mem.orderNumber)
  IN
  /\ req.pc = "save"
  /\ req.op = "serverCreate"
  /\ IF ~isMongoDBConnected
     THEN /\ ServerSaved(r, req)
          /\ UNCHANGED orders
     ELSE IF err = NoError
     THEN /\ orders' = Append(orders, ServerTimestamps(req.mem, now))
          /\ ServerSaved(r, [tried EXCEPT !.id = Len(orders) + 1])
     ELSE IF err.name = "ValidationError"
     THEN /\ Done(r, tried, ServerValidationFailed)
          /\ UNCHANGED orders
     ELSE IF ShouldRetry(err)
     THEN /\ \E rand \in RetryRands :
               reqs' = [reqs EXCEPT ![r] =
                 [tried EXCEPT
                    !.pc = "retry",
                    !.dups = IF err.code = DuplicateKey THEN @ + 1 ELSE @,
                    !.mem.orderNumber = <<now, rand>>]]
          /\ UNCHANGED orders
     ELSE /\ Done(r, tried, ServerOuterCatch(err))
          /\ UNCHANGED orders
  /\ UNCHANGED <<now, isMongoDBConnected>>

\* (mutant) a duplicate key on the retry is swallowed and the request answers
\* as if the order had been saved
ServerCreateRetrySwallow(r, fault) ==
  LET req == reqs[r]
      tried == [req EXCEPT !.attempts = @ + 1]
      err == SaveOutcome(ServerValidate(req.mem), fault, req.mem.orderNumber)
  IN
  /\ req.pc = "retry"
  /\ req.op = "serverCreate"
  /\ IF err = NoError
     THEN /\ orders' = Append(orders, ServerTimestamps(req.mem, now))
          /\ ServerSaved(r, [tried EXCEPT !.id = Len(orders) + 1])
     ELSE IF err.code = DuplicateKey
     THEN /\ ServerSaved(r, [tried EXCEPT !.dups = @ + 1])
          /\ UNCHANGED orders
     ELSE /\ Done(r, tried, ServerOuterCatch(err))
          /\ UNCHANGED orders
  /\ UNCHANGED <<now, isMongoDBConnected>>

\* retryOrder.save() in the catch block: whatever it throws reaches the outer
\* catch
ServerCreateRetry(r, fault) ==
  LET req == reqs[r]
      tried == [req EXCEPT !.attempts = @ + 1]
      err == SaveOutcome(ServerValidate(req.mem), fault, req.mem.orderNumber)
  IN
  /\ req.pc = "retry"
  /\ req.op = "serverCreate"
  /\ IF err = NoError
     THEN /\ orders' = Append(orders, ServerTimestamps(req.mem, now))
          /\ ServerSaved(r, [tried EXCEPT !.id = Len(orders) + 1])
     ELSE /\ Done(r, [tried EXCEPT
                        !.dups = IF err.code = DuplicateKey THEN @ + 1 ELSE @],
                  ServerOuterCatch(err))
          /\ UNCHANGED orders
  /\ UNCHANGED <<now, isMongoDBConnected>>

\* ---- the email section of the handler
\* sendOrderConfirmationEmail and sendAdminNotification catch what they meet
\* and return whether the mail was sent: false when the credentials are not
\* configured or sendMail throws.  contactInfo.email falls back to userEmail,
\* a required field, so the customer's mail is always attempted.
ServerSendCustomerEmail(r, sent) ==
  LET req == reqs[r] IN
  /\ req.pc = "customerEmail"
  /\ req.op = "serverCreate"
  /\ reqs' = [reqs EXCEPT ![r] =
       [req EXCEPT !.pc = "adminEmail", !.emailResults.customerEmail = sent]]
  /\ UNCHANGED <<orders, now, isMongoDBConnected>>

\* (mutant) a failed notification fails the request and takes the order back
ServerSendAdminEmailFailing(r, sent) ==
  LET req == reqs[r]
      mailed == [req EXCEPT !.emailResults.adminEmail = sent]
  IN
  /\ req.pc = "adminEmail"
  /\ req.op = "serverCreate"
  /\ IF sent /\ req.emailResults.customerEmail
     THEN /\ Done(r, [mailed EXCEPT !.emailSent = TRUE, !.data = TRUE],
                  ServerCreated)
          /\ UNCHANGED orders
     ELSE /\ Done(r, mailed, Resp(500, "Failed to create order"))
          /\ orders' = IF req.id \in OrderIds
                        THEN SubSeq(orders, 1, req.id - 1)
                             \o SubSeq(orders, req.id + 1, Len(orders))
                        ELSE orders
  /\ UNCHANGED <<now, isMongoDBConnected>>

\* emailSent: true in the answer
ServerEmailSentFlag(emailResults) == TRUE

\* the admin's notification, then the 201 answer
ServerSendAdminEmail(r, sent) ==
  LET req == reqs[r]
      mailed == [req EXCEPT !.emailResults.adminEmail = sent]
  IN
  /\ req.pc = "adminEmail"
  /\ req.op = "serverCreate"
  /\ Done(r, [mailed EXCEPT
                 !.emailSent = ServerEmailSentFlag(mailed.emailResults),
                 !.data = TRUE],
          ServerCreated)
  /\ UNCHANGED <<orders, now, isMongoDBConnected>>

\* ------------------------------------------------- models/Order: save of a new order
\* the schema's validators
ModelValidate(o) ==
  /\ o.user # NoUser
  /\ o.paymentMethod \in ModelPaymentMethods
  /\ o.deliveryType \in {"delivery", "pickup"}
  /\ o.status \in ModelStatuses
  /\ o.paymentStatus \in PaymentStatuses
  /\ \A i \in 1..Len(o.items) :
        o.items[i].quantity >= 1 /\ o.items[i].price >= 0
  /\ o.subtotal >= 0 /\ o.deliveryFee >= 0 /\ o.tax >= 0
  /\ o.serviceFee >= 0 /\ o.tip >= 0 /\ o.discountAmount >= 0
  /\ o.totalAmount >= 0
  /\ o.rating = 0 \/ (1 <= o.rating /\ o.rating <= 5)

\* (mutant) the order number is generated at every save
HookOrderNumberAtEverySave(o, isNew, number) ==
  [o EXCEPT !.orderNumber = number]

\* pre('save'): if (this.isNew), the order number
HookOrderNumber(o, isNew, number) ==
  IF isNew THEN [o EXCEPT !.orderNumber = number] ELSE o

\* pre('save'): the totals, when items or a fee is modified (mod: the modified
\* paths; every path set on a new document is modified)
HookTotals(o, mod) ==
  IF mod \cap {"items", "deliveryFee", "tax", "serviceFee", "tip",
               "discountAmount"} # {}
  THEN [o EXCEPT
          !.subtotal = ItemsTotal(o.items),
          !.totalAmount = ItemsTotal(o.items) + o.deliveryFee + o.tax
                          + o.serviceFee + o.tip - o.discountAmount]
  ELSE o

\* pre('save'): the status timestamps
HookTimestamps(o, mod, t) ==
  IF "status" \in mod
  THEN IF o.status = "delivered" /\ o.deliveredAt = NoDate
       THEN [o EXCEPT !.deliveredAt = t]
       ELSE IF o.status = "cancelled" /\ o.cancelledAt = NoDate
       THEN [o EXCEPT !.cancelledAt = t]
       ELSE o
  ELSE o

\* timestamps: true, the createdAt of a document saved for the first time
Timestamps(o, t) == [o EXCEPT !.createdAt = t]

\* the document a new order is stored as
NewOrderDoc(o, number, t) ==
  Timestamps(HookTimestamps(HookTotals(HookOrderNumber(o, TRUE, number),
                                       {"items", "status"}),
                            {"items", "status"}, t), t)

\* ------------------------------------------------- routes/orderRoutes.js POST /
RouteOrderData(actor, body) ==
  LET subtotal == ItemsTotal(body.items)
      deliveryFee == IF body.deliveryType = "delivery"
                     THEN RestaurantDeliveryFee ELSE 0
      tax == TaxOf(subtotal)
      serviceFee == ServiceFeeOf(subtotal)
  IN [BlankOrder EXCEPT
        !.via = "route", !.user = actor.id, !.items = body.items,
        !.contactEmail = OrEmail(body.contactEmail, actor.id),
        !.deliveryAddress = body.deliveryAddress,
        !.deliveryType = body.deliveryType,
        !.paymentMethod = body.paymentMethod,
        !.subtotal = subtotal, !.deliveryFee = deliveryFee, !.tax = tax,
        !.serviceFee = serviceFee, !.tip = body.tip,
        !.totalAmount = subtotal + deliveryFee + tax + serviceFee + body.tip]

RouteCreateOrder(r, actor, body, rand, fault, cap) ==
  LET req == [IdleReq EXCEPT !.op = "routeCreate", !.actor = actor,
                             !.body = body]
      doc == NewOrderDoc(RouteOrderData(actor, body), <<now, rand>>, now)
      failed == Resp(500, "Error creating order")
  IN
  /\ reqs[r].pc = "idle"
  /\ RoomForOrder(cap)
  /\ isMongoDBConnected
  /\ IF ~body.restaurantId
     THEN Done(r, req, Resp(404, "Restaurant not found")) /\ UNCHANGED orders
     ELSE IF ~body.itemsGiven \/ body.items = <<>>
     THEN Done(r, req, Resp(400, "Order must contain at least one item"))
          /\ UNCHANGED orders
     ELSE IF ~body.contactInfo
     THEN Done(r, req, failed) /\ UNCHANGED orders
     ELSE IF ~ModelValidate(doc) \/ fault \/ UniqueViolation(doc.orderNumber)
     THEN Done(r, [req EXCEPT !.attempts = 1], failed) /\ UNCHANGED orders
     ELSE /\ orders' = Append(orders, doc)
          /\ Done(r, [req EXCEPT !.attempts = 1, !.id = Len(orders) + 1,
                                 !.mem = doc],
                  Resp(201, "Order placed successfully"))
  /\ UNCHANGED <<now, isMongoDBConnected>>

\* --------------------------------------------------- the controller: createOrder
CtrlOrderData(userId, body) ==
  LET calculatedSubtotal == OrElse(body.subtotal, ItemsTotal(body.items))
      calculatedDeliveryFee ==
        OrElse(body.deliveryFee,
               IF body.deliveryType = "delivery" THEN DefaultDeliveryFee ELSE 0)
      calculatedTax == OrElse(body.tax, TaxOf(calculatedSubtotal))
      calculatedTip == body.tip
      calculatedTotal ==
        OrElse(body.total, calculatedSubtotal + calculatedDeliveryFee
                           + calculatedTax + calculatedTip)
  IN [BlankOrder EXCEPT
        !.via = "controller", !.user = userId, !.items = body.items,
        !.userEmail = IF userId # GuestUser THEN userId
                      ELSE OrEmail(body.contactEmail, "placeholder"),
        !.contactEmail = OrEmail(body.contactEmail, "none"),
        !.deliveryAddress =
           IF body.deliveryType = "delivery" THEN body.deliveryAddress ELSE "none",
        !.deliveryType = body.deliveryType,
        !.paymentMethod = body.paymentMethod,
        !.paymentStatus =
           IF body.paymentMethod = "cash" THEN "pending" ELSE "completed",
        !.subtotal = calculatedSubtotal, !.deliveryFee = calculatedDeliveryFee,
        !.tax = calculatedTax, !.tip = calculatedTip,
        !.totalAmount = calculatedTotal,
        !.status = "confirmed"]

CtrlCreateOrder(r, actor, body, rand, fault, cap) ==
  LET req == [IdleReq EXCEPT !.op = "ctrlCreate", !.actor = actor,
                             !.body = body]
      userId == IF actor.id # NoUser THEN actor.id ELSE GuestUser
      doc == NewOrderDoc(CtrlOrderData(userId, body), <<now, rand>>, now)
      failed == Resp(500, "Server error while creating order")
  IN
  /\ reqs[r].pc = "idle"
  /\ RoomForOrder(cap)
  /\ isMongoDBConnected
  /\ IF ~body.itemsGiven \/ body.items = <<>>
     THEN Done(r, req, Resp(400, "No order items provided")) /\ UNCHANGED orders
     ELSE IF ~body.restaurantId \/ ~body.restaurantName
     THEN Done(r, req, Resp(400, "Restaurant information is required"))
          /\ UNCHANGED orders
     ELSE IF body.deliveryType = "delivery" /\ body.deliveryAddress = "none"
     THEN Done(r, req, Resp(400, "Delivery address is required for delivery orders"))
          /\ UNCHANGED orders
     ELSE IF ~body.contactInfo
     THEN Done(r, req, failed) /\ UNCHANGED orders
     ELSE IF ~ModelValidate(doc)
     THEN Done(r, [req EXCEPT !.attempts = 1], Resp(400, "Validation error"))
          /\ UNCHANGED orders
     ELSE IF fault \/ UniqueViolation(doc.orderNumber)
     THEN Done(r, [req EXCEPT !.attempts = 1], failed) /\ UNCHANGED orders
     ELSE /\ orders' = Append(orders, doc)
          /\ Done(r, [req EXCEPT !.attempts = 1, !.id = Len(orders) + 1,
                                 !.mem = doc],
                  Resp(201, "Order created successfully"))
  /\ UNCHANGED <<now, isMongoDBConnected>>

\* ------------------------------------------------------- the order lifecycle
\* A handler that has loaded an order holds, until its write: id, the order;
\* seen, the status it read; target, the status (for updatePaymentStatus the
\* payment status) it asks for; mem, the
\* in-memory document (of the loaded fields, those a write of these handlers
\* sends or a pre-save hook reads); mod, the paths it has modified.
Loaded(o) ==
  [BlankOrder EXCEPT
     !.orderNumber = o.orderNumber,
     !.status = o.status, !.paymentStatus = o.paymentStatus,
     !.deliveredAt = o.deliveredAt, !.cancelledAt = o.cancelledAt,
     !.cancellationReason = o.cancellationReason,
     !.rated = o.rated, !.rating = o.rating]

\* the paths of mem that differ from the loaded document: isModified
Modified(o, mem) ==
  {f \in {"status", "paymentStatus", "cancellationReason", "rated", "rating"} :
     mem[f] # o[f]}

\* $set of the paths in mod
ApplySet(o, mem, mod) ==
  [f \in DOMAIN o |-> IF f \in mod THEN mem[f] ELSE o[f]]

StartReq(op, actor, id) ==
  [IdleReq EXCEPT !.op = op, !.actor = actor, !.id = id]

NotFound == Resp(404, "Order not found")

\* findById has answered and the handler has changed the document in memory
Load(r, req, mem) ==
  reqs' = [reqs EXCEPT ![r] =
    [req EXCEPT !.pc = "write", !.seen = orders[req.id].status,
                !.target = mem.status, !.mem = mem,
                !.mod = Modified(Loaded(orders[req.id]), mem)]]

\* order.save() of a loaded order: the validators on the modified paths, the
\* pre-save hooks, then the update of the modified paths. A status of ""
\* is order.status = undefined: the enum is not applied to it, the path is
\* unset, and every later findById gives the default of the schema, which is
\* what the model stores.
SaveLoaded(r, ok, failed) ==
  \E rand \in Rands :
  LET req == reqs[r]
      valid == /\ "status" \in req.mod
                    => req.mem.status \in ModelStatuses \cup {""}
               /\ "rating" \in req.mod =>
                     \/ req.mem.rating = 0
                     \/ 1 <= req.mem.rating /\ req.mem.rating <= 5
      hooked == HookTimestamps(
                  HookTotals(HookOrderNumber(req.mem, FALSE, <<now, rand>>),
                             req.mod),
                  req.mod, now)
      paths == req.mod \cup {f \in {"orderNumber", "deliveredAt", "cancelledAt"} :
                               hooked[f] # req.mem[f]}
      stored == [hooked EXCEPT
                   !.status = IF @ = "" THEN BlankOrder.status ELSE @]
  IN
  /\ req.pc = "write"
  /\ IF valid
     THEN /\ orders' = [orders EXCEPT ![req.id] = ApplySet(@, stored, paths)]
          /\ Done(r, req, ok)
     ELSE /\ UNCHANGED orders
          /\ Done(r, req, failed)
  /\ UNCHANGED <<now, isMongoDBConnected>>

\* Order.findByIdAndUpdate(id, update, {new: true, runValidators: true}): no
\* save hook runs
FindByIdAndUpdate(r, ok) ==
  LET req == reqs[r] IN
  /\ req.pc = "write"
  /\ orders' = [orders EXCEPT ![req.id] = ApplySet(@, req.mem, req.mod)]
  /\ Done(r, req, ok)
  /\ UNCHANGED <<now, isMongoDBConnected>>

\* ---- the controller: updateOrderStatus
CtrlUpdateStatusRead(r, id, status) ==
  LET req == [StartReq("ctrlStatus", Anonymous, id) EXCEPT !.target = status] IN
  /\ reqs[r].pc = "idle"
  /\ isMongoDBConnected
  /\ IF status = ""
     THEN Done(r, req, Resp(400, "Status is required"))
     ELSE IF status \notin validStatuses
     THEN Done(r, req, Resp(400, "Invalid status"))
     ELSE IF id \notin OrderIds
     THEN Done(r, req, NotFound)
     ELSE LET order == orders[id]
              stamp == status = "delivered" /\ order.deliveredAt = NoDate
          IN reqs' = [reqs EXCEPT ![r] =
               [req EXCEPT
                  !.pc = "write", !.seen = order.status,
                  !.mem = [Loaded(order) EXCEPT
                             !.status = status,
                             !.deliveredAt = IF stamp THEN now ELSE @],
                  !.mod = {"status"} \cup
                          (IF stamp THEN {"deliveredAt"} ELSE {})]]
  /\ UNCHANGED <<orders, now, isMongoDBConnected>>

CtrlUpdateStatusWrite(r) ==
  /\ reqs[r].op = "ctrlStatus"
  /\ FindByIdAndUpdate(r, Resp(200, "Order status updated successfully"))

\* ---- the controller: updatePaymentStatus
\* (mutant) a refunded payment also moves the order to refunded
CtrlUpdatePaymentReadCoupled(r, id, paymentStatus) ==
  LET req == [StartReq("ctrlPayment", Anonymous, id) EXCEPT
                !.target = paymentStatus]
      coupled == paymentStatus = "refunded"
  IN
  /\ reqs[r].pc = "idle"
  /\ isMongoDBConnected
  /\ IF paymentStatus \notin validPaymentStatuses
     THEN Done(r, req, Resp(400, "Invalid payment status"))
     ELSE IF id \notin OrderIds
     THEN Done(r, req, NotFound)
     ELSE reqs' = [reqs EXCEPT ![r] =
            [req EXCEPT
               !.pc = "write", !.seen = orders[id].status,
               !.mem = [Loaded(orders[id]) EXCEPT
                          !.paymentStatus = paymentStatus,
                          !.status = IF coupled THEN "refunded" ELSE @],
               !.mod = {"paymentStatus"} \cup
                       (IF coupled THEN {"status"} ELSE {})]]
  /\ UNCHANGED <<orders, now, isMongoDBConnected>>

CtrlUpdatePaymentRead(r, id, paymentStatus) ==
  LET req == [StartReq("ctrlPayment", Anonymous, id) EXCEPT
                !.target = paymentStatus]
  IN
  /\ reqs[r].pc = "idle"
  /\ isMongoDBConnected
  /\ IF paymentStatus = ""
     THEN Done(r, req, Resp(400, "Payment status is required"))
     ELSE IF paymentStatus \notin validPaymentStatuses
     THEN Done(r, req, Resp(400, "Invalid payment status"))
     ELSE IF id \notin OrderIds
     THEN Done(r, req, NotFound)
     ELSE reqs' = [reqs EXCEPT ![r] =
            [req EXCEPT
               !.pc = "write", !.seen = orders[id].status,
               !.mem = [Loaded(orders[id]) EXCEPT
                          !.paymentStatus = paymentStatus],
               !.mod = {"paymentStatus"}]]
  /\ UNCHANGED <<orders, now, isMongoDBConnected>>

CtrlUpdatePaymentWrite(r) ==
  /\ reqs[r].op = "ctrlPayment"
  /\ FindByIdAndUpdate(r, Resp(200, "Payment status updated successfully"))

\* ---- the controller: cancelOrder
\* (mutant) the handler does not compare the order's user with the caller
CtrlCancelReadAnyone(r, actor, id) ==
  LET req == StartReq("ctrlCancel", actor, id) IN
  /\ reqs[r].pc = "idle"
  /\ isMongoDBConnected
  /\ IF id \notin OrderIds
     THEN Done(r, req, NotFound)
     ELSE IF orders[id].status \in CtrlNonCancellable
     THEN Done(r, [req EXCEPT !.seen = orders[id].status],
               Resp(400, "Order cannot be cancelled at this stage"))
     ELSE Load(r, req, [Loaded(orders[id]) EXCEPT !.status = "cancelled"])
  /\ UNCHANGED <<orders, now, isMongoDBConnected>>

CtrlCancelRead(r, actor, id) ==
  LET req == StartReq("ctrlCancel", actor, id) IN
  /\ reqs[r].pc = "idle"
  /\ isMongoDBConnected
  /\ IF id \notin OrderIds
     THEN Done(r, req, NotFound)
     ELSE IF orders[id].user # actor.id
     THEN Done(r, [req EXCEPT !.seen = orders[id].status],
               Resp(401, "Not authorized to cancel this order"))
     ELSE IF orders[id].status \in CtrlNonCancellable
     THEN Done(r, [req EXCEPT !.seen = orders[id].status],
               Resp(400, "Order cannot be cancelled at this stage"))
     ELSE Load(r, req, [Loaded(orders[id]) EXCEPT !.status = "cancelled"])
  /\ UNCHANGED <<orders, now, isMongoDBConnected>>

CtrlCancelSave(r) ==
  /\ reqs[r].op = "ctrlCancel"
  /\ SaveLoaded(r, Resp(200, "Order cancelled successfully"),
                Resp(500, "Server error while cancelling order"))

\* ---- routes/orderRoutes.js PUT /:orderId/cancel
RouteCancelRead(r, actor, id, reason) ==
  LET req == StartReq("routeCancel", actor, id) IN
  /\ reqs[r].pc = "idle"
  /\ isMongoDBConnected
  /\ IF id \notin OrderIds
     THEN Done(r, req, NotFound)
     ELSE IF orders[id].user # actor.id
     THEN Done(r, [req EXCEPT !.seen = orders[id].status],
               Resp(403, "Access denied"))
     ELSE IF orders[id].status \in RouteNonCancellable
     THEN Done(r, [req EXCEPT !.seen = orders[id].status],
               Resp(400, "Cannot cancel order with status"))
     ELSE Load(r, req,
               [Loaded(orders[id]) EXCEPT
                  !.status = "cancelled",
                  !.cancellationReason =
                     IF reason # "" THEN reason ELSE "Cancelled by user"])
  /\ UNCHANGED <<orders, now, isMongoDBConnected>>

RouteCancelSave(r) ==
  /\ reqs[r].op = "routeCancel"
  /\ SaveLoaded(r, Resp(200, "Order cancelled successfully"),
                Resp(500, "Error cancelling order"))

\* ---- routes/orderRoutes.js PUT /:orderId/status
\* order.restaurant is the reference stored in the order (the handler does
\* not populate it), and a reference has no owner
IsRestaurantOwner(order, actor) == FALSE

RouteUpdateStatusRead(r, actor, id, status) ==
  LET req == [StartReq("routeStatus", actor, id) EXCEPT !.target = status] IN
  /\ reqs[r].pc = "idle"
  /\ isMongoDBConnected
  /\ IF id \notin OrderIds
     THEN Done(r, req, NotFound)
     ELSE IF actor.role # "admin" /\ ~IsRestaurantOwner(orders[id], actor)
     THEN Done(r, [req EXCEPT !.seen = orders[id].status],
               Resp(403, "Access denied"))
     ELSE Load(r, req, [Loaded(orders[id]) EXCEPT !.status = status])
  /\ UNCHANGED <<orders, now, isMongoDBConnected>>

RouteUpdateStatusSave(r) ==
  /\ reqs[r].op = "routeStatus"
  /\ SaveLoaded(r, Resp(200, "Order status updated successfully"),
                Resp(500, "Error updating order status"))

\* ---- routes/orderRoutes.js POST /:orderId/rate
RouteRateRead(r, actor, id, rating) ==
  LET req == StartReq("routeRate", actor, id) IN
  /\ reqs[r].pc = "idle"
  /\ isMongoDBConnected
  /\ IF id \notin OrderIds
     THEN Done(r, req, NotFound)
     ELSE IF orders[id].user # actor.id
     THEN Done(r, [req EXCEPT !.seen = orders[id].status],
               Resp(403, "Access denied"))
     ELSE IF orders[id].status # "delivered"
     THEN Done(r, [req EXCEPT !.seen = orders[id].status],
               Resp(400, "Can only rate delivered orders"))
     ELSE Load(r, req, [Loaded(orders[id]) EXCEPT
                          !.rated = TRUE, !.rating = rating])
  /\ UNCHANGED <<orders, now, isMongoDBConnected>>

RouteRateSave(r) ==
  /\ reqs[r].op = "routeRate"
  /\ SaveLoaded(r, Resp(200, "Order rated successfully"),
                Resp(500, "Error rating order"))

\* ---- reading one order
\* routes/orderRoutes.js GET /:orderId
RouteGetOrder(r, actor, id) ==
  LET req == StartReq("routeGet", actor, id) IN
  /\ reqs[r].pc = "idle"
  /\ isMongoDBConnected
  /\ IF id \notin OrderIds
     THEN Done(r, req, NotFound)
     ELSE IF orders[id].user # actor.id /\ actor.role # "admin"
     THEN Done(r, req, Resp(403, "Access denied"))
     ELSE Done(r, [req EXCEPT !.data = TRUE], Resp(200, ""))
  /\ UNCHANGED <<orders, now, isMongoDBConnected>>

\* the controller: getOrderById
CtrlGetOrder(r, actor, id) ==
  LET req == StartReq("ctrlGet", actor, id) IN
  /\ reqs[r].pc = "idle"
  /\ isMongoDBConnected
  /\ IF id \notin OrderIds
     THEN Done(r, req, NotFound)
     ELSE IF orders[id].user # actor.id /\ actor.role # "admin"
     THEN Done(r, req, Resp(401, "Not authorized to view this order"))
     ELSE Done(r, [req EXCEPT !.data = TRUE], Resp(200, ""))
  /\ UNCHANGED <<orders, now, isMongoDBConnected>>

\* server.js GET /api/orders/:id: the route has no middleware and the handler
\* does not look at the caller
ServerGetOrder(r, actor, id) ==
  LET req == StartReq("serverGet", actor, id) IN
  /\ reqs[r].pc = "idle"
  /\ IF ~isMongoDBConnected
     THEN Done(r, req, Resp(404, "Database not connected"))
     ELSE IF id \notin OrderIds
     THEN Done(r, req, NotFound)
     ELSE Done(r, [req EXCEPT !.data = TRUE], Resp(200, ""))
  /\ UNCHANGED <<orders, now, isMongoDBConnected>>

\* ---- the handlers that list orders
\* .sort({ createdAt: -1 }): the orders of ids, latest first; the order of
\* two that were created at the same time is the database's choice
SortCreatedAtDesc(ids) ==
  {s \in [1..Cardinality(ids) -> ids] :
     /\ \A i, j \in DOMAIN s : i # j => s[i] # s[j]
     /\ \A i, j \in DOMAIN s :
          i < j => orders[s[i]].createdAt >= orders[s[j]].createdAt}

\* .limit(limit * 1).skip((page - 1) * limit)
LimitSkip(s, page, limit) ==
  SubSeq(s, (page - 1) * limit + 1,
         IF page * limit < Len(s) THEN page * limit ELSE Len(s))

\* if (status && status !== 'all') query.status = status
StatusFilter(o, status) == status \in {"", "all"} \/ o.status = status

Listed(r, req, s) == Done(r, [req EXCEPT !.list = s], Resp(200, ""))

\* routes/orderRoutes.js GET /my-orders, behind authMiddleware
RouteMyOrders(r, actor) ==
  LET req == StartReq("routeMyOrders", actor, 0)
      found == {i \in OrderIds : orders[i].user = actor.id}
  IN
  /\ reqs[r].pc = "idle"
  /\ isMongoDBConnected
  /\ \E s \in SortCreatedAtDesc(found) : Listed(r, req, s)
  /\ UNCHANGED <<orders, now, isMongoDBConnected>>

\* the controller: getMyOrders; without req.user the read of req.user._id
\* throws and the catch answers
CtrlGetMyOrders(r, actor, status, page, limit) ==
  LET req == [StartReq("ctrlMyOrders", actor, 0) EXCEPT !.target = status]
      found == {i \in OrderIds : /\ orders[i].user = actor.id
                                 /\ StatusFilter(orders[i], status)}
  IN
  /\ reqs[r].pc = "idle"
  /\ isMongoDBConnected
  /\ IF actor.id = NoUser
     THEN Done(r, req, Resp(500, "Server error while fetching orders"))
     ELSE \E s \in SortCreatedAtDesc(found) :
            Listed(r, req, LimitSkip(s, page, limit))
  /\ UNCHANGED <<orders, now, isMongoDBConnected>>

\* server.js GET /api/orders/my-orders: the route has no middleware, the
\* address comes from the query or from a header, .limit(50)
ServerMyOrders(r, actor, email) ==
  LET req == [StartReq("serverMyOrders", actor, 0) EXCEPT !.target = email]
      found == {i \in OrderIds : orders[i].userEmail = email}
  IN
  /\ reqs[r].pc = "idle"
  /\ IF email = ""
     THEN Done(r, req, Resp(400, "User email is required"))
     ELSE IF ~isMongoDBConnected
     THEN Listed(r, req, <<>>)
     ELSE \E s \in SortCreatedAtDesc(found) :
            Listed(r, req, LimitSkip(s, 1, ServerListLimit))
  /\ UNCHANGED <<orders, now, isMongoDBConnected>>

\* routes/orderRoutes.js GET /, behind authMiddleware and adminMiddleware
RouteAllOrders(r, actor, status, page, limit) ==
  LET req == [StartReq("routeAllOrders", actor, 0) EXCEPT !.target = status]
      found == {i \in OrderIds : status = "" \/ orders[i].status = status}
  IN
  /\ reqs[r].pc = "idle"
  /\ isMongoDBConnected
  /\ IF actor.role # "admin"
     THEN Done(r, req, Resp(403, "Access denied. Admin privileges required."))
     ELSE \E s \in SortCreatedAtDesc(found) :
            Listed(r, req, LimitSkip(s, page, limit))
  /\ UNCHANGED <<orders, now, isMongoDBConnected>>

\* the controller: getOrders, which does not look at the caller
CtrlGetOrders(r, actor, status, page, limit) ==
  LET req == [StartReq("ctrlAllOrders", actor, 0) EXCEPT !.target = status]
      found == {i \in OrderIds : StatusFilter(orders[i], status)}
  IN
  /\ reqs[r].pc = "idle"
  /\ isMongoDBConnected
  /\ \E s \in SortCreatedAtDesc(found) :
         Listed(r, req, LimitSkip(s, page, limit))
  /\ UNCHANGED <<orders, now, isMongoDBConnected>>

\* ---- the inputs of the lifecycle specifications
LiveOrderIds == 1..MaxLiveOrders
StatusInputs == ModelStatuses \cup {"", "bogus"}
PaymentInputs == validPaymentStatuses \cup {"", "bogus"}
ReasonInputs == {"", "late"}
\* req.body.rating: 0 is a body without rating (min and max do not apply to
\* a path that is not set)
RatingInputs == {0, 4, 6}
\* the targets asked for while requests race
RaceStatuses == {"preparing", "cancelled", "delivered"}
Admin == [id |-> "root", role |-> "admin"]
\* the user the order's restaurant names as its owner
RestaurantOwner == [id |-> "rosa", role |-> "restaurant_owner"]
\* who places the orders whose lifecycle is followed
Customer == [id |-> "alice", role |-> "user"]

\* ------------------------------------------------------------ specifications
\* server.js, which has its own Order schema and its own mock mode
NextServer ==
  \/ Tick
  \/ \E r \in ReqIds : Finish(r)
  \/ \E r \in ReqIds, body \in ServerBodies : ServerCreateStart(r, body)
  \/ \E r \in ReqIds, fault \in BOOLEAN : ServerCreateSave(r, fault)
  \/ \E r \in ReqIds, fault \in BOOLEAN : ServerCreateRetry(r, fault)
  \/ \E r \in ReqIds, sent \in BOOLEAN : ServerSendCustomerEmail(r, sent)
  \/ \E r \in ReqIds, sent \in BOOLEAN : ServerSendAdminEmail(r, sent)

SpecServer == Init /\ [][NextServer]_vars

\* order creation over models/Order
InitModel ==
  /\ Init
  /\ isMongoDBConnected

NextCreate ==
  \/ Tick
  \/ Finish(1)
  \/ \E actor \in Actors, body \in Bodies, rand \in Rands, fault \in BOOLEAN :
        RouteCreateOrder(1, actor, body, rand, fault, MaxOrders)
  \/ \E actor \in Actors \cup {Anonymous}, body \in Bodies, rand \in Rands,
        fault \in BOOLEAN :
        CtrlCreateOrder(1, actor, body, rand, fault, MaxOrders)

SpecCreate == InitModel /\ [][NextCreate]_vars

\* order creation by any of the three handlers, over every body of Bodies
NextCreateAny ==
  \/ Tick
  \/ Finish(1)
  \/ \E body \in Bodies : ServerCreateStart(1, body)
  \/ \E fault \in BOOLEAN : ServerCreateSave(1, fault)
  \/ \E fault \in BOOLEAN : ServerCreateRetry(1, fault)
  \/ \E sent \in BOOLEAN : ServerSendCustomerEmail(1, sent)
  \/ \E sent \in BOOLEAN : ServerSendAdminEmail(1, sent)
  \/ \E actor \in Actors, body \in Bodies, rand \in Rands, fault \in BOOLEAN :
        RouteCreateOrder(1, actor, body, rand, fault, MaxOrders)
  \/ \E actor \in Actors \cup {Anonymous}, body \in Bodies, rand \in Rands,
        fault \in BOOLEAN :
        CtrlCreateOrder(1, actor, body, rand, fault, MaxOrders)

SpecCreateAny == Init /\ [][NextCreateAny]_vars

\* the orders of two customers and the requests that list them
ListBodies == {BaseBody, [BaseBody EXCEPT !.userEmail = "bob"]}
ListStatuses == {"", "all", "confirmed", "pending"}
ListPages == {1, 2}
ListLimits == {1, 10}

NextList ==
  \/ Tick
  \/ Finish(1)
  \/ \E body \in ListBodies : ServerCreateStart(1, body)
  \/ \E fault \in BOOLEAN : ServerCreateSave(1, fault)
  \/ \E fault \in BOOLEAN : ServerCreateRetry(1, fault)
  \/ \E sent \in BOOLEAN : ServerSendCustomerEmail(1, sent)
  \/ \E sent \in BOOLEAN : ServerSendAdminEmail(1, sent)
  \/ \E actor \in Actors, rand \in Rands :
        RouteCreateOrder(1, actor, BaseBody, rand, FALSE, MaxOrders)
  \/ \E actor \in Actors, rand \in Rands :
        CtrlCreateOrder(1, actor, BaseBody, rand, FALSE, MaxOrders)
  \/ \E actor \in Actors : RouteMyOrders(1, actor)
  \/ \E actor \in Actors \cup {Anonymous}, status \in ListStatuses,
        page \in ListPages, limit \in ListLimits :
        CtrlGetMyOrders(1, actor, status, page, limit)
  \/ \E actor \in Actors \cup {Anonymous}, email \in Users \cup {""} :
        ServerMyOrders(1, actor, email)
  \/ \E actor \in Actors, status \in ListStatuses \ {"all"},
        page \in ListPages, limit \in ListLimits :
        RouteAllOrders(1, actor, status, page, limit)
  \/ \E actor \in Actors \cup {Anonymous}, status \in ListStatuses,
        page \in ListPages, limit \in ListLimits :
        CtrlGetOrders(1, actor, status, page, limit)

SpecList == Init /\ [][NextList]_vars

\* the lifecycle over models/Order, one request at a time
NextLife(r) ==
  \/ Tick
  \/ Finish(r)
  \/ \E rand \in Rands, fault \in BOOLEAN :
        RouteCreateOrder(r, Customer, BaseBody, rand, fault, MaxLiveOrders)
  \/ \E rand \in Rands, fault \in BOOLEAN :
        CtrlCreateOrder(r, Customer, BaseBody, rand, fault, MaxLiveOrders)
  \/ \E id \in LiveOrderIds, status \in StatusInputs :
        CtrlUpdateStatusRead(r, id, status)
  \/ CtrlUpdateStatusWrite(r)
  \/ \E id \in LiveOrderIds, paymentStatus \in PaymentInputs :
        CtrlUpdatePaymentRead(r, id, paymentStatus)
  \/ CtrlUpdatePaymentWrite(r)
  \/ \E actor \in Actors, id \in LiveOrderIds : CtrlCancelRead(r, actor, id)
  \/ CtrlCancelSave(r)
  \/ \E actor \in Actors, id \in LiveOrderIds, reason \in ReasonInputs :
        RouteCancelRead(r, actor, id, reason)
  \/ RouteCancelSave(r)
  \/ \E actor \in Actors \cup {RestaurantOwner}, id \in LiveOrderIds,
        status \in StatusInputs :
        RouteUpdateStatusRead(r, actor, id, status)
  \/ RouteUpdateStatusSave(r)
  \/ \E actor \in Actors, id \in LiveOrderIds, rating \in RatingInputs :
        RouteRateRead(r, actor, id, rating)
  \/ RouteRateSave(r)
  \/ \E actor \in Actors, id \in LiveOrderIds : RouteGetOrder(r, actor, id)
  \/ \E actor \in Actors, id \in LiveOrderIds : CtrlGetOrder(r, actor, id)
  \/ \E actor \in Actors \cup {Anonymous}, id \in LiveOrderIds :
        ServerGetOrder(r, actor, id)

Next == NextLife(1)

Spec == InitModel /\ [][Next]_vars

\* the lifecycle over models/Order with requests in flight together
NextRace ==
  \/ Tick
  \/ \E r \in ReqIds : Finish(r)
  \/ \E r \in ReqIds, rand \in Rands, fault \in BOOLEAN :
        CtrlCreateOrder(r, Customer, BaseBody, rand, fault, MaxLiveOrders)
  \/ \E r \in ReqIds, id \in LiveOrderIds, status \in RaceStatuses :
        CtrlUpdateStatusRead(r, id, status)
  \/ \E r \in ReqIds : CtrlUpdateStatusWrite(r)
  \/ \E r \in ReqIds, id \in LiveOrderIds : CtrlCancelRead(r, Customer, id)
  \/ \E r \in ReqIds : CtrlCancelSave(r)
  \/ \E r \in ReqIds, id \in LiveOrderIds, reason \in ReasonInputs :
        RouteCancelRead(r, Customer, id, reason)
  \/ \E r \in ReqIds : RouteCancelSave(r)
  \/ \E r \in ReqIds, id \in LiveOrderIds, status \in RaceStatuses :
        RouteUpdateStatusRead(r, Admin, id, status)
  \/ \E r \in ReqIds : RouteUpdateStatusSave(r)

SpecRace == InitModel /\ [][NextRace]_vars

\* ------------------------------------------------------------------ claims
TotalOf(o) ==
  o.subtotal + o.deliveryFee + o.tax + o.serviceFee + o.tip - o.discountAmount

ServerDone(r) == reqs[r].pc = "done" /\ reqs[r].op = "serverCreate"

\* C1: every persisted order has totalAmount = subtotal + deliveryFee + tax
\* + serviceFee + tip - discountAmount.
C1_TotalReconciles ==
  \A i \in OrderIds : orders[i].totalAmount = TotalOf(orders[i])

\* C2: the persisted subtotal is the sum over the order's items of
\* price * quantity, whatever subtotal and total the client sent.
C2_SubtotalRecomputed ==
  \A i \in OrderIds : orders[i].subtotal = ItemsTotal(orders[i].items)

\* C3: no two persisted orders have the same orderNumber, whatever the
\* interleaving of the requests that create them.
C3_UniqueOrderNumbers ==
  \A i, j \in OrderIds :
    i # j => orders[i].orderNumber # orders[j].orderNumber

\* C3 witness: two orders are stored and the request that stored the second
\* had generated a number that was already taken.
C3_Witness ==
  /\ Len(orders) = 2
  /\ \E r \in ReqIds :
       ServerDone(r) /\ reqs[r].dups = 1 /\ reqs[r].id = 2

\* C4 as stated: a request whose first two inserts were rejected for a
\* duplicate orderNumber, while a free number exists for a third, succeeds.
C4_SucceedsOnThirdAttempt ==
  \A r \in ReqIds :
    (ServerDone(r) /\ reqs[r].dups = 2
       /\ (\E rand \in RetryRands : ~UniqueViolation(<<now, rand>>)))
    => reqs[r].resp = ServerCreated

\* C4 as amended: after one rejection for a duplicate orderNumber the request
\* saves once more under the regenerated number; it succeeds, storing
\* exactly that one order, when the number is free and the save does not fail
\* otherwise; a second rejection ends it with "Duplicate order detected" and
\* nothing stored: there is no third attempt.
C4_OneRetry ==
  [][\A r \in ReqIds :
       (reqs[r].op = "serverCreate" /\ reqs[r].pc = "retry"
          /\ reqs'[r].pc # "retry")
       => /\ reqs[r].dups = 1
          /\ reqs'[r].attempts = 2
          /\ IF UniqueViolation(reqs[r].mem.orderNumber)
             THEN /\ orders' = orders
                  /\ reqs'[r].pc = "done"
                  /\ reqs'[r].resp \in {Resp(400, "Duplicate order detected"),
                                          Resp(500, "Failed to create order")}
             ELSE \/ /\ orders' = Append(orders,
                                          ServerTimestamps(reqs[r].mem, now))
                     /\ reqs'[r].pc = "customerEmail"
                     /\ reqs'[r].id = Len(orders')
                  \/ /\ orders' = orders
                     /\ reqs'[r].pc = "done"
                     /\ reqs'[r].resp = Resp(500, "Failed to create order")
    ]_vars

\* C4 witness: a request has succeeded on its second attempt, after one
\* rejection.
C4_Witness ==
  \E r \in ReqIds :
    /\ ServerDone(r)
    /\ reqs[r].dups = 1 /\ reqs[r].attempts = 2
    /\ reqs[r].resp = ServerCreated
    /\ reqs[r].id \in OrderIds

\* C5: a request whose every insert was rejected for a duplicate orderNumber
\* ends after at most two attempts with an error answer that differs from
\* the answer to a validation failure, and has stored no order.
C5_ExhaustedIsDistinct ==
  \A r \in ReqIds :
    (ServerDone(r) /\ reqs[r].attempts >= 1
       /\ reqs[r].dups = reqs[r].attempts)
    => /\ reqs[r].attempts <= 2
       /\ reqs[r].resp.code >= 400
       /\ reqs[r].resp # ServerValidationFailed
       /\ reqs[r].id = 0

\* C5 witness: a request has ended after two rejected inserts.
C5_Witness ==
  \E r \in ReqIds :
    ServerDone(r) /\ reqs[r].attempts = 2 /\ reqs[r].dups = 2

\* C6: a failure of the insert that is not a duplicate orderNumber is not
\* retried: the request has made one attempt more than it met duplicates
\* (one attempt when it met none), has answered with the failure and has
\* stored nothing.
C6_OtherFailureNotRetried ==
  \A r \in ReqIds :
    (ServerDone(r) /\ reqs[r].attempts >= 1 /\ reqs[r].id = 0
       /\ reqs[r].dups < reqs[r].attempts)
    => /\ reqs[r].attempts = reqs[r].dups + 1
       /\ reqs[r].resp \in {ServerValidationFailed,
                              Resp(500, "Failed to create order")}

\* C6 witness: a request has ended on a failure of its first insert that was
\* no duplicate.
C6_Witness ==
  \E r \in ReqIds :
    /\ ServerDone(r) /\ reqs[r].attempts = 1 /\ reqs[r].dups = 0
    /\ reqs[r].resp = Resp(500, "Failed to create order")

\* the transition table of the order status
TransitionTable ==
  {<<"pending", "confirmed">>, <<"pending", "cancelled">>,
   <<"confirmed", "preparing">>, <<"confirmed", "cancelled">>,
   <<"preparing", "ready">>, <<"preparing", "cancelled">>,
   <<"ready", "out_for_delivery">>,
   <<"out_for_delivery", "delivered">>,
   <<"delivered", "refunded">>}

StatusOps == {"ctrlStatus", "routeStatus"}
CancelOps == {"ctrlCancel", "routeCancel"}

\* C7: the write of an UpdateStatus request leaves the stored status as it
\* was or moves it along an edge of the transition table, and a request for
\* a target that is neither is rejected.
C7_FollowsTransitionTable ==
  [][\A r \in ReqIds :
       (reqs[r].op \in StatusOps /\ reqs[r].pc = "write"
          /\ reqs'[r].pc = "done")
       => LET from == orders[reqs[r].id].status
              to == orders'[reqs[r].id].status
          IN /\ to = from \/ <<from, to>> \in TransitionTable
             /\ (reqs[r].target # from
                   /\ <<from, reqs[r].target>> \notin TransitionTable)
                => reqs'[r].resp.code >= 400
    ]_vars

\* C8: a CancelOrder request of the order's owner succeeds only on an order
\* it found pending or confirmed; on an order it found preparing, ready,
\* out_for_delivery or delivered it is rejected and the status stays.
C8_CancelOnlyBeforePreparing ==
  \A r \in ReqIds :
    (reqs[r].pc = "done" /\ reqs[r].op \in CancelOps
       /\ reqs[r].id \in OrderIds
       /\ orders[reqs[r].id].user = reqs[r].actor.id)
    => /\ reqs[r].resp.code = 200 => reqs[r].seen \in {"pending", "confirmed"}
       /\ reqs[r].seen \in {"preparing", "ready", "out_for_delivery",
                              "delivered"}
          => /\ reqs[r].resp.code >= 400
             /\ orders[reqs[r].id].status = reqs[r].seen

\* C9: of two UpdateStatus requests that both read the order as confirmed,
\* one asking for preparing and one for cancelled, the one that writes
\* second (its read is stale: the stored status is the other's target) is
\* answered with a conflict and leaves the first one's status stored.
C9_OneWinsOtherConflicts ==
  [][\A r1, r2 \in ReqIds :
       (/\ r1 # r2
        /\ reqs[r1].op \in StatusOps /\ reqs[r2].op \in StatusOps
        /\ reqs[r1].id = reqs[r2].id
        /\ reqs[r1].seen = "confirmed" /\ reqs[r2].seen = "confirmed"
        /\ {reqs[r1].target, reqs[r2].target} = {"preparing", "cancelled"}
        /\ reqs[r1].pc = "done" /\ reqs[r1].resp.code = 200
        /\ orders[reqs[r1].id].status = reqs[r1].target
        /\ reqs[r2].pc = "write" /\ reqs'[r2].pc = "done")
       => /\ reqs'[r2].resp.code = 409
          /\ orders'[reqs[r1].id].status = reqs[r1].target
    ]_vars

\* C10: deliveredAt is written by the step that moves an order into delivered
\* while it is unset, an order that is delivered has it set, and once set no
\* request changes it, a repeated transition to delivered included.  One
\* request at a time (Spec) every step satisfies this; overlapping requests
\* (SpecRace) do not.
C10_DeliveredAtSetOnce ==
  [][\A i \in OrderIds :
       /\ orders[i].deliveredAt # NoDate
          => orders'[i].deliveredAt = orders[i].deliveredAt
       /\ (orders[i].deliveredAt = NoDate /\ orders'[i].deliveredAt # NoDate)
          => (orders[i].status # "delivered" /\ orders'[i].status = "delivered")
       /\ orders'[i].status = "delivered" => orders'[i].deliveredAt # NoDate
    ]_vars

\* C11: after every step an order whose stored status is cancelled has
\* cancelledAt set, whichever request moved it there, and a cancelledAt that
\* is set is not changed by any step.
C11_CancelledAtSetAndKept ==
  [][\A i \in DOMAIN orders' :
       /\ orders'[i].status = "cancelled" => orders'[i].cancelledAt # NoDate
       /\ (i \in OrderIds /\ orders[i].cancelledAt # NoDate)
          => orders'[i].cancelledAt = orders[i].cancelledAt
    ]_vars

\* C12: the write of a RateOrder request of the owner succeeds only on an
\* order that is delivered and not rated, and then stores rated = TRUE; on an
\* order that is not delivered or is already rated it fails and leaves rated
\* and rating as they were.
C12_RateOnceWhenDelivered ==
  [][\A r \in ReqIds :
       (reqs[r].op = "routeRate" /\ reqs[r].pc = "write"
          /\ reqs'[r].pc = "done"
          /\ orders[reqs[r].id].user = reqs[r].actor.id)
       => LET o == orders[reqs[r].id]
              after == orders'[reqs[r].id]
          IN /\ reqs'[r].resp.code = 200
                => (o.status = "delivered" /\ ~o.rated /\ after.rated)
             /\ (o.status # "delivered" \/ o.rated)
                => /\ reqs'[r].resp.code >= 400
                   /\ after.rated = o.rated
                   /\ after.rating = o.rating
    ]_vars

\* where a request stands while it sends its notifications
EmailPcs == {"customerEmail", "adminEmail"}

\* C13: whatever the two notifications of a request that has persisted its
\* order return, the request keeps the order stored as it is and ends with
\* the 201 answer.
C13_NotificationsNeverFail ==
  [][\A r \in ReqIds :
       (reqs[r].op = "serverCreate" /\ reqs[r].pc \in EmailPcs
          /\ reqs[r].id \in OrderIds /\ reqs'[r] # reqs[r])
       => /\ reqs[r].id \in DOMAIN orders'
          /\ orders'[reqs[r].id] = orders[reqs[r].id]
          /\ reqs'[r].id = reqs[r].id
          /\ reqs'[r].pc \in {"adminEmail", "done"}
          /\ reqs'[r].pc = "done" => reqs'[r].resp = ServerCreated
    ]_vars

\* C13 witness: two requests have persisted their orders and answered 201,
\* one after both notifications failed, one after the customer's was sent
\* and the admin's failed.
C13_Witness ==
  \E r1, r2 \in ReqIds :
    /\ r1 # r2
    /\ ServerDone(r1) /\ ServerDone(r2)
    /\ reqs[r1].resp = ServerCreated /\ reqs[r2].resp = ServerCreated
    /\ reqs[r1].id \in OrderIds /\ reqs[r2].id \in OrderIds
    /\ reqs[r1].emailResults = [customerEmail |-> FALSE, adminEmail |-> FALSE]
    /\ reqs[r2].emailResults = [customerEmail |-> TRUE, adminEmail |-> FALSE]

\* C14: in a 201 answer the flag emailSent is not set when a notification of
\* the request was not sent.
C14_FlagReflectsNotifications ==
  \A r \in ReqIds :
    (ServerDone(r) /\ reqs[r].resp = ServerCreated
       /\ (~reqs[r].emailResults.customerEmail
            \/ ~reqs[r].emailResults.adminEmail))
    => ~reqs[r].emailSent

\* C15: the answer does not wait for the notifications: a request that is
\* sending, or has yet to send, a notification has answered already.
C15_AnswerNotBehindNotifications ==
  \A r \in ReqIds :
    (reqs[r].op = "serverCreate" /\ reqs[r].pc \in EmailPcs)
    => reqs[r].resp # NoResp

\* C16: an order that has just been created (nothing but creation has touched
\* it) is pending when it is paid in cash on delivery and confirmed when its
\* payment method is pre-paid.
C16_InitialStatusByPaymentMethod ==
  \A i \in OrderIds :
    /\ orders[i].paymentMethod \in {"cash", "cash_on_delivery"}
       => orders[i].status = "pending"
    /\ orders[i].paymentMethod \in {"credit_card", "debit_card", "paypal"}
       => orders[i].status = "confirmed"

GetOps == {"routeGet", "ctrlGet", "serverGet"}

\* C17: a GetOrder request of an actor who is neither the order's owner nor
\* an admin is denied and its answer carries no order.
C17_GetOrderOwnerOrAdmin ==
  \A r \in ReqIds :
    (reqs[r].pc = "done" /\ reqs[r].op \in GetOps /\ reqs[r].id \in OrderIds
       /\ orders[reqs[r].id].user # reqs[r].actor.id
       /\ reqs[r].actor.role # "admin")
    => (reqs[r].resp.code >= 400 /\ ~reqs[r].data)

\* C18: a CancelOrder request of an actor who is not the order's owner is
\* denied at once, whatever the order's status, and changes nothing of the
\* order; only the owner's request reaches the save.
C18_CancelEnforcesOwnership ==
  [][\A r \in ReqIds :
       /\ (reqs[r].pc = "idle" /\ reqs'[r].op \in CancelOps
             /\ reqs'[r].id \in OrderIds
             /\ orders[reqs'[r].id].user # reqs'[r].actor.id)
          => /\ reqs'[r].pc = "done"
             /\ reqs'[r].resp.code \in {401, 403}
             /\ orders' = orders
       /\ (reqs[r].op \in CancelOps /\ orders' # orders)
          => orders[reqs[r].id].user = reqs[r].actor.id
    ]_vars

\* C18 witness: an actor who is not the owner has been denied the
\* cancellation of an order that its owner could cancel, and the order is
\* as it was.
C18_Witness ==
  \E r \in ReqIds :
    /\ reqs[r].pc = "done" /\ reqs[r].op \in CancelOps
    /\ reqs[r].id \in OrderIds
    /\ orders[reqs[r].id].user # reqs[r].actor.id
    /\ reqs[r].resp.code \in {401, 403}
    /\ orders[reqs[r].id].status \in {"pending", "confirmed"}
    /\ orders[reqs[r].id].cancelledAt = NoDate
    /\ orders[reqs[r].id].cancellationReason = ""

\* C19: PUT /:orderId/status accepts the request of an admin and of the
\* owner of the order's restaurant, and denies every other actor, leaving
\* the status as the request found it.
C19_StatusByAdminOrRestaurantOwner ==
  \A r \in ReqIds :
    (reqs[r].pc = "done" /\ reqs[r].op = "routeStatus"
       /\ reqs[r].id \in OrderIds)
    => IF reqs[r].actor.role = "admin" \/ reqs[r].actor = RestaurantOwner
       THEN reqs[r].resp.code # 403
       ELSE /\ reqs[r].resp.code = 403
            /\ orders[reqs[r].id].status = reqs[r].seen

\* C20: updatePaymentStatus takes up every payment status of the enum on
\* every existing order, answers 200, stores it and leaves status,
\* deliveredAt and cancelledAt as they were; the write of an UpdateStatus
\* request leaves paymentStatus as it was.
C20_PaymentAndStatusIndependent ==
  [][\A r \in ReqIds :
       /\ (reqs[r].pc = "idle" /\ reqs'[r].op = "ctrlPayment"
             /\ reqs'[r].target \in PaymentStatuses
             /\ reqs'[r].id \in OrderIds)
          => reqs'[r].pc = "write"
       /\ (reqs[r].op = "ctrlPayment" /\ reqs[r].pc = "write"
             /\ reqs'[r].pc = "done")
          => LET o == orders[reqs[r].id]
                 after == orders'[reqs[r].id]
             IN /\ reqs'[r].resp.code = 200
                /\ after.paymentStatus = reqs[r].target
                /\ after.status = o.status
                /\ after.deliveredAt = o.deliveredAt
                /\ after.cancelledAt = o.cancelledAt
       /\ (reqs[r].op \in StatusOps /\ reqs[r].pc = "write"
             /\ reqs'[r].pc = "done")
          => orders'[reqs[r].id].paymentStatus
               = orders[reqs[r].id].paymentStatus
    ]_vars

\* C20 witness: the payment of a delivered order has been set to refunded,
\* and the order is still delivered, with the deliveredAt it had.
C20_Witness ==
  \E r \in ReqIds :
    /\ reqs[r].pc = "done" /\ reqs[r].op = "ctrlPayment"
    /\ reqs[r].resp.code = 200
    /\ reqs[r].target = "refunded" /\ reqs[r].seen = "delivered"
    /\ orders[reqs[r].id].paymentStatus = "refunded"
    /\ orders[reqs[r].id].status = "delivered"
    /\ orders[reqs[r].id].deliveredAt # NoDate

CreateOps == {"serverCreate", "routeCreate", "ctrlCreate"}

CreateDone(r) == reqs[r].pc = "done" /\ reqs[r].op \in CreateOps

NoItems(body) == ~body.itemsGiven \/ body.items = <<>>

ItemsErrors ==
  {"No order items provided", "Order must contain at least one item",
   "Missing required fields"}

\* C21: no stored order has an empty list of items, and a creation request
\* whose items are missing or empty is answered 400 with the error about the
\* items, whatever else is wrong with the request, and stores nothing.
C21_ItemsCheckedFirst ==
  /\ \A i \in 1..Len(orders) : orders[i].items # <<>>
  /\ \A r \in ReqIds :
       (CreateDone(r) /\ NoItems(reqs[r].body))
         => /\ reqs[r].resp.code = 400
            /\ reqs[r].resp.message \in ItemsErrors
            /\ reqs[r].id = 0

AddressErrors ==
  {"Missing required fields",
   "Delivery address is required for delivery orders"}

\* C22: no stored delivery order is without a delivery address, a delivery
\* request without one is rejected and stores nothing, and a pickup request
\* that is well-formed but for its missing address is not rejected for it.
C22_AddressRequiredExactlyForDelivery ==
  /\ \A i \in 1..Len(orders) :
       orders[i].deliveryType = "delivery" => orders[i].deliveryAddress # "none"
  /\ \A r \in ReqIds :
       /\ (CreateDone(r) /\ reqs[r].body.deliveryType = "delivery"
              /\ reqs[r].body.deliveryAddress = "none")
            => (reqs[r].resp.code >= 400 /\ reqs[r].id = 0)
       /\ (CreateDone(r)
              /\ reqs[r].body = [BaseBody EXCEPT !.deliveryType = "pickup",
                                                 !.deliveryAddress = "none"])
            => reqs[r].resp.message \notin AddressErrors

\* C23: no stored order has a negative totalAmount, and a creation request
\* whose amounts add up to less than nothing is answered with an error and
\* stores nothing.
C23_NoNegativeTotal ==
  /\ \A i \in 1..Len(orders) : orders[i].totalAmount >= 0
  /\ \A r \in ReqIds :
       (CreateDone(r)
          /\ reqs[r].body.subtotal + reqs[r].body.deliveryFee
               + reqs[r].body.tax + reqs[r].body.tip < 0)
         => (reqs[r].resp.code >= 400 /\ reqs[r].id = 0)

\* C24: an UpdateStatus request whose target is not one of the eight values
\* of the enum is answered with an error and its write, if it gets to one,
\* leaves the orders as they were; every stored status is one of the eight.
C24_UnknownStatusRejected ==
  [][ \A r \in ReqIds :
       /\ (reqs'[r].op \in StatusOps /\ reqs'[r].pc = "done"
             /\ reqs[r].pc # "done"
             /\ reqs'[r].target \notin ModelStatuses
             /\ reqs'[r].resp.code \notin {403, 404})
          => (reqs'[r].resp.code >= 400 /\ orders' = orders)
       /\ \A i \in 1..Len(orders') : orders'[i].status \in ModelStatuses
    ]_vars

\* C25: an UpdateStatus request with target refunded on a delivered order,
\* by an actor allowed to update it, goes on to its write, and the write
\* answers 200 and leaves the stored status refunded.
C25_RefundedFromDelivered ==
  [][ \A r \in ReqIds :
       /\ (reqs[r].pc = "idle" /\ reqs'[r].op \in StatusOps
             /\ reqs'[r].target = "refunded"
             /\ reqs'[r].id \in OrderIds
             /\ orders[reqs'[r].id].status = "delivered"
             /\ reqs'[r].resp.code # 403)
          => reqs'[r].pc = "write"
       /\ (reqs[r].op \in StatusOps /\ reqs[r].pc = "write"
             /\ reqs[r].target = "refunded" /\ reqs[r].seen = "delivered"
             /\ reqs'[r].pc = "done")
          => /\ reqs'[r].resp.code = 200
             /\ orders'[reqs[r].id].status = "refunded"
    ]_vars

C27_OrderNumberImmutable ==
  [][ /\ Len(orders') >= Len(orders)
      /\ \A i \in 1..Len(orders) :
           orders'[i].orderNumber = orders[i].orderNumber
    ]_vars

\* C27 witness: an order created at an earlier time has been delivered and
\* then rated, each by a save that ran the pre-save hooks, and still has
\* the number of its creation.
C27_Witness ==
  \E r \in ReqIds :
    /\ reqs[r].pc = "done" /\ reqs[r].op = "routeRate"
    /\ reqs[r].resp.code = 200
    /\ orders[reqs[r].id].rated
    /\ orders[reqs[r].id].status = "delivered"
    /\ orders[reqs[r].id].orderNumber[1] >= 1
    /\ orders[reqs[r].id].orderNumber[1] < now

MyOrdersOps == {"routeMyOrders", "ctrlMyOrders", "serverMyOrders"}

\* the order belongs to the actor: it names them as its user, or carries
\* their address as its userEmail
BelongsTo(o, actor) ==
  actor.id # NoUser /\ (o.user = actor.id \/ o.userEmail = actor.id)

\* C28: the answer to a ListMyOrders request holds only orders of the actor
\* who sent it, latest first, and the answer to a ListAllOrders request of
\* the router holds orders only if the actor is an admin.
C28_ListsOnlyOwnOrders ==
  \A r \in ReqIds :
    /\ (reqs[r].pc = "done" /\ reqs[r].op \in MyOrdersOps)
         => /\ \A k \in 1..Len(reqs[r].list) :
                 BelongsTo(orders[reqs[r].list[k]], reqs[r].actor)
            /\ \A j, k \in 1..Len(reqs[r].list) :
                 j < k => orders[reqs[r].list[j]].createdAt
                            >= orders[reqs[r].list[k]].createdAt
    /\ (reqs[r].pc = "done" /\ reqs[r].op = "routeAllOrders"
           /\ reqs[r].actor.role # "admin")
         => (reqs[r].list = <<>> /\ reqs[r].resp.code >= 400)

\* C29: whatever UpdateStatus requests run between the read and the write of
\* a CancelOrder request that read a pending or confirmed order, its write
\* does not turn an order whose stored status is by then preparing, ready,
\* out_for_delivery or delivered into a cancelled one.
C29_CancelNeverOverwritesProgress ==
  [][ \A r \in ReqIds :
       (reqs[r].op \in CancelOps /\ reqs[r].pc = "write"
          /\ reqs'[r].pc = "done"
          /\ reqs[r].seen \in {"pending", "confirmed"}
          /\ orders[reqs[r].id].status
               \in {"preparing", "ready", "out_for_delivery", "delivered"})
       => orders'[reqs[r].id].status = orders[reqs[r].id].status
    ]_vars

====
